---- MODULE Spec2Model ----
(***************************************************************************)
(* A model of run_etl.py: configuration merge (load_config), column-name   *)
(* normalization (normalize_columns), cleaning and enrichment              *)
(* (clean_and_enrich), aggregation (compute_aggregates) and the pipeline   *)
(* driver (main).                                                          *)
(*                                                                         *)
(* Strings that the code inspects character by character (numeric cells)   *)
(* are sequences of one-character strings.  Column names are sequences of  *)
(* atoms: an atom is a maximal run of letters ("transaction", "Quantity")  *)
(* or one separator character (" " or "_"), so that strip(), lower() and   *)
(* replace(" ", "_") act on them exactly as they act on the characters.    *)
(***************************************************************************)
EXTENDS Integers, Sequences, FiniteSets, TLC

VARIABLES
    npc,          \* position in the configuration / normalization run
    cfg,          \* config.yaml as parsed: NoFile, or the maps it supplies
    COL_MAP,      \* CONFIG["col_map"]: an ordered dict, a sequence of <<key, value>>
    CATEGORY_MAP, \* CONFIG["category_map"], an ordered dict
    rawCols,      \* df.columns handed to normalize_columns
    normCols,     \* columns of normalize_columns(df)
    renormCols,   \* columns of normalize_columns(normalize_columns(df))
    pc,           \* position in the pipeline
    files,        \* ingest_files: what reading each input file gave, in sorted order
    raw,          \* the table returned by ingest_files
    norm,         \* normalize_columns(raw)
    clean,        \* outcome of clean_and_enrich(norm)
    aggs,         \* outcome of compute_aggregates(clean)
    calls,        \* the stages main() has invoked, in order
    written,      \* the output files written so far
    mainOut       \* how main() ended: "running", "returned" or "raised"

nvars == <<npc, cfg, COL_MAP, CATEGORY_MAP, rawCols, normCols, renormCols>>
pvars == <<pc, files, raw, norm, clean, aggs, calls, written, mainOut>>
vars == <<nvars, pvars>>

-----------------------------------------------------------------------------
(* Generic helpers *)

Range(s) == {s[i] : i \in 1..Len(s)}

\* all sequences over S of length lo..hi
SeqsOf(S, lo, hi) == UNION {[1..n -> S] : n \in lo..hi}

NoDup(s) == \A i, j \in 1..Len(s) : i # j => s[i] # s[j]

-----------------------------------------------------------------------------
(* Column names *)

\* str.lower() on one atom
LowerAtom(a) ==
    CASE a = "Quantity"    -> "quantity"
      [] a = "Qty"         -> "qty"
      [] a = "Transaction" -> "transaction"
      [] OTHER             -> a

lower(s) == [i \in 1..Len(s) |-> LowerAtom(s[i])]

RECURSIVE lstrip(_)
lstrip(s) == IF s # <<>> /\ Head(s) = " " THEN lstrip(Tail(s)) ELSE s

RECURSIVE rstrip(_)
rstrip(s) ==
    IF s # <<>> /\ s[Len(s)] = " " THEN rstrip(SubSeq(s, 1, Len(s) - 1)) ELSE s

strip(s) == rstrip(lstrip(s))

\* str.replace(" ", "_")
replace_space(s) == [i \in 1..Len(s) |-> IF s[i] = " " THEN "_" ELSE s[i]]

\* DEFAULT_CONFIG["col_map"], in insertion order
DEFAULT_COL_MAP == <<
    << <<"transaction", "_", "id">>,   <<"transaction", "_", "id">> >>,
    << <<"transaction", "_", "date">>, <<"date">> >>,
    << <<"transaction", "_", "time">>, <<"time">> >>,
    << <<"transaction", "_", "qty">>,  <<"qty">> >>,
    << <<"store", "_", "id">>,         <<"store", "_", "id">> >>,
    << <<"store", "_", "location">>,   <<"store", "_", "location">> >>,
    << <<"product", "_", "id">>,       <<"product", "_", "id">> >>,
    << <<"unit", "_", "price">>,       <<"unit", "_", "price">> >>,
    << <<"product", "_", "category">>, <<"category">> >>,
    << <<"product", "_", "type">>,     <<"subcategory">> >>,
    << <<"product", "_", "detail">>,   <<"product">> >>,
    << <<"quantity">>,                 <<"qty">> >>,
    << <<"price">>,                    <<"unit", "_", "price">> >>
>>

\* dict operations on an ordered dict
Keys(d) == {d[i][1] : i \in 1..Len(d)}

Get(d, k) == d[CHOOSE i \in 1..Len(d) : d[i][1] = k][2]

\* d[k] = v: an existing key keeps its position, a new key goes last
SetItemDefaultWins(d, k, v) ==
    IF k \in Keys(d) THEN d ELSE Append(d, <<k, v>>)

SetItem(d, k, v) ==
    IF k \in Keys(d)
    THEN [i \in 1..Len(d) |-> IF d[i][1] = k THEN <<k, v>> ELSE d[i]]
    ELSE Append(d, <<k, v>>)

\* dict.update(other): other's items assigned in other's order
RECURSIVE update(_, _)
update(d, other) ==
    IF other = <<>> THEN d
    ELSE update(SetItem(d, Head(other)[1], Head(other)[2]), Tail(other))

NoFile == [exists |-> FALSE]

\* DEFAULT_CONFIG["category_map"]
DEFAULT_CATEGORY_MAP == <<>>

\* load_config(): the two maps of the returned configuration
load_config(c) ==
    IF c.exists
    THEN [col_map      |-> IF c.has_col_map
                           THEN update(DEFAULT_COL_MAP, c.col_map)
                           ELSE DEFAULT_COL_MAP,
          category_map |-> IF c.has_category_map
                           THEN update(DEFAULT_CATEGORY_MAP, c.category_map)
                           ELSE DEFAULT_CATEGORY_MAP]
    ELSE [col_map |-> DEFAULT_COL_MAP, category_map |-> DEFAULT_CATEGORY_MAP]

\* {k.lower(): v for k, v in COL_MAP.items()}: a later item replaces an
\* earlier one with the same lower-cased key
RECURSIVE lower_map(_)
lower_map(d) ==
    IF d = <<>> THEN <<>>
    ELSE LET last == d[Len(d)]
         IN  SetItem(lower_map(SubSeq(d, 1, Len(d) - 1)), lower(last[1]), last[2])

\* the name normalize_columns gives the (already stripped) column c
new_col(m, c) ==
    IF c \in Keys(m) THEN Get(m, c)
    ELSE IF lower(c) \in Keys(lower_map(m)) THEN Get(lower_map(m), lower(c))
    ELSE replace_space(lower(c))

\* normalize_columns(df).columns: pandas rename() maps every column whose
\* label is a key of new_cols, duplicates included, and keeps their number
normalize_columns(m, cols) ==
    LET stripped == [i \in 1..Len(cols) |-> strip(cols[i])]
    IN  [i \in 1..Len(cols) |-> new_col(m, stripped[i])]

-----------------------------------------------------------------------------
(* Configuration and normalization runs *)

MaxNameLen == 3
MaxCallerEntries == 2
MaxCols == 2

RawAtoms == {"transaction", "qty", "quantity", "Quantity", " ", "_"}
RawNames == SeqsOf(RawAtoms, 1, MaxNameLen)

CallerKeys == {<<"quantity">>, <<"Quantity">>, <<"qty">>, <<"transaction", "_", "qty">>}
CallerVals == {<<"qty">>, <<"units">>}
CallerMaps ==
    {m \in SeqsOf(CallerKeys \X CallerVals, 0, MaxCallerEntries) :
        \A i, j \in 1..Len(m) : i # j => m[i][1] # m[j][1]}
CallerCategoryMaps == {<<>>, << << <<"A">>, <<"B">> >> >>}
CallerConfigs ==
    {NoFile}
    \cup {c \in [exists : {TRUE}, has_col_map : BOOLEAN, col_map : CallerMaps,
                 has_category_map : BOOLEAN, category_map : CallerCategoryMaps] :
            /\ (~c.has_col_map => c.col_map = <<>>)
            /\ (~c.has_category_map => c.category_map = <<>>)}

NInit ==
    /\ npc = "start" /\ cfg = NoFile
    /\ COL_MAP = DEFAULT_COL_MAP /\ CATEGORY_MAP = DEFAULT_CATEGORY_MAP
    /\ rawCols = <<>> /\ normCols = <<>> /\ renormCols = <<>>

\* CONFIG = load_config(); COL_MAP = CONFIG["col_map"];
\* CATEGORY_MAP = CONFIG["category_map"]
LoadFrom(configs) ==
    /\ npc = "start"
    /\ \E c \in configs :
          /\ cfg' = c
          /\ COL_MAP' = load_config(c).col_map
          /\ CATEGORY_MAP' = load_config(c).category_map
    /\ npc' = "loaded"
    /\ UNCHANGED <<rawCols, normCols, renormCols>>

LoadConfig == LoadFrom(CallerConfigs)

LoadDefault == LoadFrom({NoFile})

\* norm = normalize_columns(raw)
NormalizeFrom(tables) ==
    /\ npc = "loaded"
    /\ \E cols \in tables :
          /\ rawCols' = cols
          /\ normCols' = normalize_columns(COL_MAP, cols)
    /\ npc' = "normalized"
    /\ UNCHANGED <<cfg, COL_MAP, CATEGORY_MAP, renormCols>>

NormalizeColumn == NormalizeFrom(SeqsOf(RawNames, 1, 1))

NormalizeTable == NormalizeFrom({t \in SeqsOf(RawNames, 1, MaxCols) : NoDup(t)})

\* normalize_columns applied to its own output
Renormalize ==
    /\ npc = "normalized"
    /\ renormCols' = normalize_columns(COL_MAP, normCols)
    /\ npc' = "renormalized"
    /\ UNCHANGED <<cfg, COL_MAP, CATEGORY_MAP, rawCols, normCols>>

-----------------------------------------------------------------------------
(* Cells.  A cell is a string (a sequence of characters), a number, a date, *)
(* a time, or missing.  Numbers parsed from qty / unit_price are held in    *)
(* hundredths (Scale), their product sale_amt in ten-thousandths.           *)

Scale == 100

NA == [k |-> "na", v |-> <<>>]
Str(s) == [k |-> "str", v |-> s]
Num(n) == [k |-> "num", v |-> n]
Timestamp(y, m, d) == [k |-> "ts", v |-> <<y, m, d, 0, 0, 0>>]
Date(y, m, d) == [k |-> "date", v |-> <<y, m, d>>]
Time(h, m, sec) == [k |-> "time", v |-> <<h, m, sec>>]

isna(c) == c.k = "na"

Digits == {"0", "1", "2", "3", "4", "5", "6", "7", "8", "9"}

DigitVal(ch) ==
    CASE ch = "0" -> 0 [] ch = "1" -> 1 [] ch = "2" -> 2 [] ch = "3" -> 3
      [] ch = "4" -> 4 [] ch = "5" -> 5 [] ch = "6" -> 6 [] ch = "7" -> 7
      [] ch = "8" -> 8 [] ch = "9" -> 9

AllDigits(s) == \A i \in 1..Len(s) : s[i] \in Digits

\* value of a digit string, most significant digit first
RECURSIVE DecVal(_)
DecVal(s) ==
    IF s = <<>> THEN 0
    ELSE 10 * DecVal(SubSeq(s, 1, Len(s) - 1)) + DigitVal(s[Len(s)])

\* Series.astype(str) on one cell
astype_str(c) ==
    CASE c.k = "str" -> c.v
      [] c.k = "na"  -> <<"<", "N", "A", ">">>

\* str.strip() on characters: surrounding blanks removed
RECURSIVE lstrip_chars(_)
lstrip_chars(s) ==
    IF s # <<>> /\ Head(s) = " " THEN lstrip_chars(Tail(s)) ELSE s

RECURSIVE rstrip_chars(_)
rstrip_chars(s) ==
    IF s # <<>> /\ s[Len(s)] = " "
    THEN rstrip_chars(SubSeq(s, 1, Len(s) - 1)) ELSE s

NAN_TOKEN == <<"n", "a", "n">>
NONE_TOKEN == <<"N", "o", "n", "e">>

\* line 112: astype(str).str.strip().replace({"nan": NA, "None": NA});
\* a missing cell of an object column prints as "nan"
trim_cell(c) ==
    LET s == IF isna(c) THEN NAN_TOKEN ELSE rstrip_chars(lstrip_chars(astype_str(c)))
    IN  IF s = NAN_TOKEN \/ s = NONE_TOKEN THEN NA ELSE Str(s)

\* str.replace(r"[^0-9.\-]", "", regex=True)
RECURSIVE strip_non_numeric(_)
strip_non_numeric(s) ==
    IF s = <<>> THEN <<>>
    ELSE IF Head(s) \in Digits \cup {".", "-"}
         THEN <<Head(s)>> \o strip_non_numeric(Tail(s))
         ELSE strip_non_numeric(Tail(s))

\* position of the first "." in s, or 0
FirstDot(s) ==
    IF \E i \in 1..Len(s) : s[i] = "."
    THEN CHOOSE i \in 1..Len(s) : s[i] = "." /\ \A j \in 1..(i - 1) : s[j] # "."
    ELSE 0

\* fraction digits as hundredths: "5" -> 50, "50" -> 50, "" -> 0
FracVal(f) ==
    IF Len(f) = 0 THEN 0
    ELSE IF Len(f) = 1 THEN 10 * DigitVal(f[1])
    ELSE 10 * DigitVal(f[1]) + DigitVal(f[2])

\* an unsigned decimal literal: digits, optional ".", digits, one digit at least
parse_unsigned(s) ==
    LET dot  == FirstDot(s)
        ip   == IF dot = 0 THEN s ELSE SubSeq(s, 1, dot - 1)
        fp   == IF dot = 0 THEN <<>> ELSE SubSeq(s, dot + 1, Len(s))
    IN  IF AllDigits(ip) /\ AllDigits(fp) /\ Len(ip) + Len(fp) >= 1
        THEN Num(Scale * DecVal(ip) + FracVal(fp))
        ELSE NA

\* pd.to_numeric(..., errors="coerce") on a string of digits, "." and "-"
to_numeric(s) ==
    IF s # <<>> /\ Head(s) = "-"
    THEN LET r == parse_unsigned(Tail(s))
         IN  IF isna(r) THEN NA ELSE Num(0 - r.v)
    ELSE parse_unsigned(s)

\* line 125 on one cell
coerce_numeric(c) == to_numeric(strip_non_numeric(astype_str(c)))

\* qty * unit_price on one row: a missing operand gives a missing product
mul_missing_as_zero(a, b) ==
    Num((IF isna(a) THEN 0 ELSE a.v) * (IF isna(b) THEN 0 ELSE b.v))

mul(a, b) == IF isna(a) \/ isna(b) THEN NA ELSE Num(a.v * b.v)

-----------------------------------------------------------------------------
(* Dates and times *)

IsLeap(y) == (y % 4 = 0 /\ y % 100 # 0) \/ y % 400 = 0

DaysIn(y, m) ==
    IF m = 2 THEN (IF IsLeap(y) THEN 29 ELSE 28)
    ELSE IF m \in {4, 6, 9, 11} THEN 30 ELSE 31

\* pd.to_datetime(errors="coerce", dayfirst=True) on one cell: a string of
\* the shape DD/MM/YYYY naming a calendar day parses, day first; the other
\* strings of the input sets below are not dates and become NaT
to_datetime(c) ==
    IF isna(c) THEN NA
    ELSE LET s == c.v
         IN  IF /\ Len(s) = 10 /\ s[3] = "/" /\ s[6] = "/"
                /\ AllDigits(SubSeq(s, 1, 2)) /\ AllDigits(SubSeq(s, 4, 5))
                /\ AllDigits(SubSeq(s, 7, 10))
             THEN LET d == DecVal(SubSeq(s, 1, 2))
                      m == DecVal(SubSeq(s, 4, 5))
                      y == DecVal(SubSeq(s, 7, 10))
                  IN  IF m \in 1..12 /\ y >= 1 /\ d >= 1 /\ d <= DaysIn(y, m)
                      THEN Timestamp(y, m, d) ELSE NA
             ELSE NA

\* positions of the ":" characters of s, in order
Colons(s) == {i \in 1..Len(s) : s[i] = ":"}

\* pd.to_datetime(format="%H:%M:%S", errors="coerce").dt.time on one cell
to_time(c) ==
    IF isna(c) THEN NA
    ELSE LET s == c.v
             cs == Colons(s)
         IN  IF Cardinality(cs) # 2 THEN NA
             ELSE LET c1 == CHOOSE i \in cs : \A j \in cs : i <= j
                      c2 == CHOOSE i \in cs : \A j \in cs : i >= j
                      hh == SubSeq(s, 1, c1 - 1)
                      mm == SubSeq(s, c1 + 1, c2 - 1)
                      ss == SubSeq(s, c2 + 1, Len(s))
                  IN  IF /\ \A f \in {hh, mm, ss} : Len(f) \in 1..2 /\ AllDigits(f)
                         /\ DecVal(hh) <= 23 /\ DecVal(mm) <= 59 /\ DecVal(ss) <= 61
                      THEN Time(DecVal(hh), DecVal(mm), DecVal(ss)) ELSE NA

DigitChar(n) ==
    CASE n = 0 -> "0" [] n = 1 -> "1" [] n = 2 -> "2" [] n = 3 -> "3"
      [] n = 4 -> "4" [] n = 5 -> "5" [] n = 6 -> "6" [] n = 7 -> "7"
      [] n = 8 -> "8" [] n = 9 -> "9"

NAT_TOKEN == <<"N", "a", "T">>

\* dt.to_period("M").astype(str) on one cell: "YYYY-MM", and the string
\* "NaT" for a missing date
month_str(c) ==
    IF isna(c) THEN Str(NAT_TOKEN)
    ELSE LET y == c.v[1]
             m == c.v[2]
         IN  Str(<<DigitChar(y \div 1000), DigitChar((y \div 100) % 10),
                   DigitChar((y \div 10) % 10), DigitChar(y % 10), "-",
                   DigitChar(m \div 10), DigitChar(m % 10)>>)

\* dt.date on one cell: the calendar day of the timestamp
day_of(c) == IF isna(c) THEN NA ELSE Date(c.v[1], c.v[2], c.v[3])

DAY_NAMES == <<"Sunday", "Monday", "Tuesday", "Wednesday", "Thursday",
               "Friday", "Saturday">>

MonthOffset == <<0, 3, 2, 5, 0, 3, 5, 1, 4, 6, 2, 4>>

\* dt.day_name() on one cell
day_name(c) ==
    IF isna(c) THEN NA
    ELSE LET y0 == c.v[1]
             m  == c.v[2]
             d  == c.v[3]
             y  == IF m < 3 THEN y0 - 1 ELSE y0
             w  == (y + (y \div 4) - (y \div 100) + (y \div 400)
                      + MonthOffset[m] + d) % 7
         IN  Str(<<DAY_NAMES[w + 1]>>)

-----------------------------------------------------------------------------
(* Tables: [cols |-> sequence of column names, rows |-> sequence of rows],  *)
(* a row being the sequence of its cells in column order.                   *)

QTY == <<"qty">>
UNIT_PRICE == <<"unit", "_", "price">>
SALE_AMT == <<"sale", "_", "amt">>
DATE == <<"date">>
TIME == <<"time">>
DAY == <<"day">>
MONTH == <<"month">>
WEEKDAY == <<"weekday">>
PRODUCT == <<"product">>
PRODUCT_DETAIL == <<"product", "_", "detail">>
PRODUCT_ID == <<"product", "_", "id">>
CATEGORY == <<"category">>
STORE_LOCATION == <<"store", "_", "location">>

UNKNOWN_PRODUCT == Str(<<"UNKNOWN_PRODUCT">>)

EmptyTable == [cols |-> <<>>, rows |-> <<>>]

HasCol(t, c) == c \in Range(t.cols)

ColIdx(t, c) == CHOOSE i \in 1..Len(t.cols) : t.cols[i] = c

\* the cell of column c in a row of table t
Cell(t, row, c) == row[ColIdx(t, c)]

\* df[c] as the sequence of its cells
ColVals(t, c) == [r \in 1..Len(t.rows) |-> t.rows[r][ColIdx(t, c)]]

\* DataFrame.drop_duplicates() on the first n rows: a row equal to an
\* earlier row on every column is dropped (missing equals missing), the
\* others keep their order
RECURSIVE dedup_keep_last(_, _)
dedup_keep_last(rows, n) ==
    IF n > Len(rows) THEN <<>>
    ELSE IF \E j \in (n + 1)..Len(rows) : rows[j] = rows[n]
         THEN dedup_keep_last(rows, n + 1)
         ELSE <<rows[n]>> \o dedup_keep_last(rows, n + 1)

drop_duplicates_keep_last(rows) == dedup_keep_last(rows, 1)

RECURSIVE dedup(_, _)
dedup(rows, n) ==
    IF n = 0 THEN <<>>
    ELSE IF \E j \in 1..(n - 1) : rows[j] = rows[n]
         THEN dedup(rows, n - 1)
         ELSE Append(dedup(rows, n - 1), rows[n])

drop_duplicates(rows) == dedup(rows, Len(rows))

\* Series.map(CATEGORY_MAP).fillna(original) on one cell
map_category(catmap, c) ==
    IF ~isna(c) /\ c.v \in Keys(catmap) THEN Str(Get(catmap, c.v)) ELSE c

fillna(c, value) == IF isna(c) THEN value ELSE c

\* the columns clean_and_enrich adds when they do not exist yet, in the
\* order of its assignments (lines 128, 131-133, 136/138)
derived_cols(t) ==
    (IF HasCol(t, QTY) /\ HasCol(t, UNIT_PRICE) THEN <<SALE_AMT>> ELSE <<>>)
    \o (IF HasCol(t, DATE) THEN <<DAY, MONTH, WEEKDAY>> ELSE <<>>)
    \o <<PRODUCT>>

enriched_cols(t) ==
    t.cols \o SelectSeq(derived_cols(t), LAMBDA c : ~HasCol(t, c))

\* lines 111-125 on one input cell of column c: trimmed, then coerced
\* when c is date, time, qty or unit_price
coerced(t, row, c) ==
    IF c = DATE THEN to_datetime(trim_cell(Cell(t, row, c)))
    ELSE IF c = TIME THEN to_time(trim_cell(Cell(t, row, c)))
    ELSE IF c \in {QTY, UNIT_PRICE} THEN coerce_numeric(trim_cell(Cell(t, row, c)))
    ELSE trim_cell(Cell(t, row, c))

\* the cell of column c in the enriched row made from row of t: a later
\* assignment of the code overwrites an input column of the same name
enriched_cell(t, catmap, row, c) ==
    IF c = SALE_AMT /\ HasCol(t, QTY) /\ HasCol(t, UNIT_PRICE)
    THEN mul(coerced(t, row, QTY), coerced(t, row, UNIT_PRICE))      \* 127-128
    ELSE IF c = DAY /\ HasCol(t, DATE)
    THEN day_of(coerced(t, row, DATE))                                \* 131
    ELSE IF c = MONTH /\ HasCol(t, DATE)
    THEN month_str(coerced(t, row, DATE))                             \* 132
    ELSE IF c = WEEKDAY /\ HasCol(t, DATE)
    THEN day_name(coerced(t, row, DATE))                              \* 133
    ELSE IF c = PRODUCT
    THEN IF HasCol(t, PRODUCT)
         THEN fillna(coerced(t, row, PRODUCT), UNKNOWN_PRODUCT)       \* 136
         ELSE IF HasCol(t, PRODUCT_DETAIL) THEN coerced(t, row, PRODUCT_DETAIL)
         ELSE IF HasCol(t, PRODUCT_ID) THEN coerced(t, row, PRODUCT_ID)
         ELSE UNKNOWN_PRODUCT                                         \* 138
    ELSE IF c = CATEGORY /\ catmap # <<>>
    THEN map_category(catmap, coerced(t, row, CATEGORY))              \* 140-141
    ELSE coerced(t, row, c)

\* clean_and_enrich, lines 109-141: df as it stands before drop_duplicates
enrich(t, catmap) ==
    [cols |-> enriched_cols(t),
     rows |-> [r \in 1..Len(t.rows) |->
                 [i \in 1..Len(enriched_cols(t)) |->
                     enriched_cell(t, catmap, t.rows[r], enriched_cols(t)[i])]]]

\* what clean_and_enrich returns for the enriched table e
cleaned(e) ==
    [status |-> "ok", enriched |-> e,
     table |-> [cols |-> e.cols, rows |-> drop_duplicates(e.rows)]]

\* clean_and_enrich(df): its outcome, as a one-element set.  With two
\* columns of one name df[col] is a DataFrame and line 112 raises
\* AttributeError on its .str accessor.
clean_and_enrich(t, catmap) ==
    IF ~NoDup(t.cols)
    THEN {[status |-> "raised", enriched |-> EmptyTable, table |-> EmptyTable]}
    ELSE {cleaned(e) : e \in {enrich(t, catmap)}}

-----------------------------------------------------------------------------
(* Aggregation *)

TOTAL_SALES == <<"total", "_", "sales">>
UNITS == <<"units">>

\* code-point order of the characters and atoms that occur in group keys
Rank(a) ==
    CASE a = " " -> 1 [] a = "-" -> 2
      [] a \in Digits -> 3 + DigitVal(a)
      [] a = "A" -> 20 [] a = "B" -> 21 [] a = "C" -> 22
      [] a = "Downtown" -> 23 [] a = "Latte" -> 24 [] a = "Mocha" -> 25
      [] a = "N" -> 26 [] a = "T" -> 27 [] a = "UNKNOWN_PRODUCT" -> 28
      [] a = "Uptown" -> 29 [] a = "_" -> 30 [] a = "a" -> 31
      [] OTHER -> 40

\* s < t for sequences of numbers, lexicographically
RECURSIVE LexLess(_, _)
LexLess(s, t) ==
    IF t = <<>> THEN FALSE
    ELSE IF s = <<>> THEN TRUE
    ELSE IF Head(s) # Head(t) THEN Head(s) < Head(t)
    ELSE LexLess(Tail(s), Tail(t))

\* the order groupby and sort_values put on the values of one key column
KeyLess(a, b) ==
    IF a.k = "str"
    THEN LexLess([i \in 1..Len(a.v) |-> Rank(a.v[i])], [i \in 1..Len(b.v) |-> Rank(b.v[i])])
    ELSE LexLess(a.v, b.v)

\* the elements of a set of keys in ascending order
RECURSIVE SortedKeys(_)
SortedKeys(S) ==
    IF S = {} THEN <<>>
    ELSE LET m == CHOOSE x \in S : \A y \in S \ {x} : KeyLess(x, y)
         IN  <<m>> \o SortedKeys(S \ {m})

\* Series.sum() over the rows of one group: missing cells are skipped
RECURSIVE GroupSum(_, _, _, _)
GroupSum(keys, vals, key, n) ==
    IF n = 0 THEN 0
    ELSE GroupSum(keys, vals, key, n - 1)
         + (IF keys[n] = key /\ ~isna(vals[n]) THEN vals[n].v ELSE 0)

\* Series.sum() of a whole column
RECURSIVE ColSum(_, _)
ColSum(vals, n) ==
    IF n = 0 THEN 0
    ELSE ColSum(vals, n - 1) + (IF isna(vals[n]) THEN 0 ELSE vals[n].v)

\* df.groupby(by).agg(agg).reset_index(): one row per non-missing key, in
\* ascending key order, with the sum of each measure
groupby_agg(t, by, measures) ==
    LET n    == Len(t.rows)
        keys == ColVals(t, by)
        ks   == SortedKeys({keys[r] : r \in {q \in 1..n : ~isna(keys[q])}})
    IN  [cols |-> <<by>> \o measures,
         rows |-> [i \in 1..Len(ks) |->
                     <<ks[i]>> \o [j \in 1..Len(measures) |->
                        Num(GroupSum(keys, ColVals(t, measures[j]), ks[i], n))]]]

\* safe_group(by, agg): the empty DataFrame when the grouping column or a
\* measure column does not exist (the KeyError is caught)
safe_group(t, by, measures) ==
    IF ~HasCol(t, by) \/ \E j \in 1..Len(measures) : ~HasCol(t, measures[j])
    THEN EmptyTable
    ELSE groupby_agg(t, by, measures)

\* DataFrame.empty
empty(t) == Len(t.cols) = 0 \/ Len(t.rows) = 0

\* rename(columns={"sale_amt": "total_sales", "qty": "units"})
rename_measures(t) ==
    [t EXCEPT !.cols = [i \in 1..Len(t.cols) |->
        IF t.cols[i] = SALE_AMT THEN TOTAL_SALES
        ELSE IF t.cols[i] = QTY THEN UNITS ELSE t.cols[i]]]

Perms(n) == {p \in [1..n -> 1..n] : \A i, j \in 1..n : i # j => p[i] # p[j]}

\* sort_values(by) ascending; the keys of a grouped table are distinct
sort_values_asc(t, by) ==
    LET n == Len(t.rows)
        c == ColIdx(t, by)
        p == CHOOSE q \in Perms(n) :
                \A i \in 1..(n - 1) : KeyLess(t.rows[q[i]][c], t.rows[q[i + 1]][c])
    IN  [t EXCEPT !.rows = [i \in 1..n |-> t.rows[p[i]]]]

\* sort_values(by, ascending=False) with the default kind="quicksort", which
\* is not a stable sort: every arrangement that is descending in the sort
\* column is a possible result, rows with equal values in any order
sort_values_desc(t, by) ==
    LET n == Len(t.rows)
        c == ColIdx(t, by)
    IN  {[t EXCEPT !.rows = [i \in 1..n |-> t.rows[p[i]]]] :
            p \in {q \in Perms(n) :
                     \A i \in 1..(n - 1) : t.rows[q[i]][c].v >= t.rows[q[i + 1]][c].v}}

\* lines 162-172: rename and rank a grouped table unless it is empty
ranked(g) ==
    IF empty(g) THEN {g} ELSE sort_values_desc(rename_measures(g), TOTAL_SALES)

\* int(x) of a value held in hundredths: truncation toward zero
int_of(x) == IF x >= 0 THEN x \div Scale ELSE 0 - ((0 - x) \div Scale)

None == [k |-> "none", v |-> <<>>]

Raised == [status |-> "raised"]

\* compute_aggregates(df): the set of its possible outcomes.  Lines 157
\* and 160 call sort_values("month") / sort_values("day") on whatever
\* safe_group returned; on the empty DataFrame that is a KeyError.
compute_aggregates(t) ==
    LET n        == Len(t.rows)
        total_sales == IF HasCol(t, SALE_AMT) THEN ColSum(ColVals(t, SALE_AMT), n) ELSE 0
        monthly0 == rename_measures(safe_group(t, MONTH, <<SALE_AMT, QTY>>))
        daily0   == rename_measures(safe_group(t, DAY, <<SALE_AMT>>))
    IN  IF ~HasCol(monthly0, MONTH) \/ ~HasCol(daily0, DAY) THEN {Raised}
        ELSE
          {[status   |-> "ok",
            kpis     |-> [total_sales        |-> total_sales,
                          total_transactions |-> n,
                          avg_ticket         |-> IF n # 0 THEN <<total_sales, n>> ELSE <<0, 1>>,
                          unique_products    |->
                              IF HasCol(t, PRODUCT)
                              THEN Cardinality({c \in Range(ColVals(t, PRODUCT)) : ~isna(c)})
                              ELSE 0,
                          top_product        |->
                              IF ~empty(product) THEN product.rows[1][ColIdx(product, PRODUCT)]
                              ELSE None,
                          total_units        |->
                              IF HasCol(t, QTY) THEN int_of(ColSum(ColVals(t, QTY), n)) ELSE 0],
            monthly  |-> sort_values_asc(monthly0, MONTH),
            daily    |-> sort_values_asc(daily0, DAY),
            product  |-> product,
            category |-> category,
            location |-> location] :
           product  \in ranked(safe_group(t, PRODUCT, <<SALE_AMT, QTY>>)),
           category \in ranked(safe_group(t, CATEGORY, <<SALE_AMT>>)),
           location \in ranked(safe_group(t, STORE_LOCATION, <<SALE_AMT>>))}

-----------------------------------------------------------------------------
(* The pipeline: normalize_columns, clean_and_enrich, compute_aggregates,   *)
(* run on a table, and main(), which runs them on what ingest_files read.   *)

MaxRows == 3
MaxFiles == 2

NotRun == [status |-> "none"]

\* the order in which main() invokes the stages, lines 360-364
STAGES == <<"normalize_columns", "clean_and_enrich", "export_cleaned",
            "compute_aggregates", "create_simple_dashboard">>

\* cell texts
S(chars) == Str(chars)
TXT_2 == S(<<"2">>)
TXT_1 == S(<<"1">>)
TXT_TWO == S(<<"t", "w", "o">>)
TXT_3_50 == S(<<"$", "3", ".", "5", "0">>)
TXT_4_00 == S(<<"4", ".", "0", "0">>)
TXT_4_00_PAD == S(<<" ", "4", ".", "0", "0">>)
TXT_1_00 == S(<<"1", ".", "0", "0">>)
TXT_2_00 == S(<<"2", ".", "0", "0">>)
TXT_3_00 == S(<<"3", ".", "0", "0">>)
TXT_NAN == S(NAN_TOKEN)
TXT_DAY1 == S(<<"0", "5", "/", "0", "3", "/", "2", "0", "2", "4">>)
TXT_SOON == S(<<"s", "o", "o", "n">>)
TXT_0930 == S(<<"0", "9", ":", "3", "0", ":", "0", "0">>)
TXT_LATE == S(<<"l", "a", "t", "e">>)
LATTE == S(<<"Latte">>)
MOCHA == S(<<"Mocha">>)

\* a schema: the raw column names and, for each, the cells a file may hold
SchemaScenario ==
    [cols  |-> <<PRODUCT, QTY, UNIT_PRICE>>,
     cells |-> <<{LATTE, MOCHA}, {TXT_2, TXT_1}, {TXT_3_50, TXT_4_00}>>]
SchemaSales ==
    [cols  |-> <<PRODUCT_DETAIL, <<"Quantity">>, <<"price">>, <<"transaction", "_", "date">>>>,
     cells |-> <<{LATTE, MOCHA}, {TXT_2, TXT_TWO}, {TXT_4_00, TXT_NAN}, {TXT_DAY1}>>]
SchemaDirty ==
    [cols  |-> <<PRODUCT, QTY, UNIT_PRICE, DATE>>,
     cells |-> <<{LATTE}, {TXT_2}, {TXT_4_00, TXT_4_00_PAD}, {TXT_DAY1, TXT_SOON}>>]
SchemaCategory ==
    [cols  |-> <<<<"product", "_", "category">>, QTY, UNIT_PRICE, DATE>>,
     cells |-> <<{S(<<"A">>), S(<<"B">>), S(<<"C">>)}, {TXT_1},
                 {TXT_1_00, TXT_2_00, TXT_3_00}, {TXT_DAY1}>>]
SchemaStore ==
    [cols  |-> <<STORE_LOCATION, QTY, UNIT_PRICE, DATE>>,
     cells |-> <<{S(<<"Downtown">>), S(<<"Uptown">>)}, {TXT_1},
                 {TXT_1_00, TXT_2_00}, {TXT_DAY1}>>]
SchemaTimes ==
    [cols  |-> <<PRODUCT_ID, <<"transaction", "_", "time">>, UNIT_PRICE>>,
     cells |-> <<{S(<<"7">>), TXT_NAN}, {TXT_0930, TXT_LATE}, {TXT_4_00, TXT_NAN}>>]
SchemaClash ==
    [cols  |-> <<<<"quantity">>, <<"transaction", "_", "qty">>>>,
     cells |-> <<{TXT_2, TXT_1}, {TXT_2, TXT_1}>>]

Schemas == {SchemaScenario, SchemaSales, SchemaDirty, SchemaCategory,
            SchemaStore, SchemaTimes, SchemaClash}

RowsOf(sch) ==
    {r \in [1..Len(sch.cols) -> UNION Range(sch.cells)] :
        \A i \in 1..Len(sch.cols) : r[i] \in sch.cells[i]}

TablesOf(sch, lo, hi) ==
    {[cols |-> sch.cols, rows |-> rs] : rs \in SeqsOf(RowsOf(sch), lo, hi)}

RawTables == UNION {TablesOf(sch, 1, MaxRows) : sch \in Schemas}

CategoryMaps == {load_config(c).category_map : c \in CallerConfigs}

\* norm = normalize_columns(raw)
Normalize ==
    /\ pc = "raw"
    /\ norm' = [cols |-> normalize_columns(COL_MAP, raw.cols), rows |-> raw.rows]
    /\ calls' = Append(calls, "normalize_columns")
    /\ pc' = "normalized"
    /\ UNCHANGED <<files, raw, clean, aggs, written, mainOut>>

\* clean = clean_and_enrich(norm)
CleanAndEnrich ==
    /\ pc = "normalized"
    /\ \E res \in clean_and_enrich(norm, CATEGORY_MAP) : clean' = res
    /\ calls' = Append(calls, "clean_and_enrich")
    /\ IF clean'.status = "ok"
       THEN pc' = "cleaned" /\ UNCHANGED mainOut
       ELSE pc' = "done" /\ mainOut' = "raised"
    /\ UNCHANGED <<files, raw, norm, aggs, written>>

\* aggs = compute_aggregates(clean)
Aggregate(from) ==
    /\ pc = from
    /\ \E res \in compute_aggregates(clean.table) :
          /\ aggs' = res
          /\ IF res.status = "ok"
             THEN pc' = "aggregated" /\ UNCHANGED mainOut
             ELSE pc' = "done" /\ mainOut' = "raised"
    /\ calls' = Append(calls, "compute_aggregates")
    /\ UNCHANGED <<files, raw, norm, clean, written>>

ComputeAggregates == Aggregate("cleaned")

PIdle ==
    /\ files = <<>> /\ norm = EmptyTable /\ clean = NotRun /\ aggs = NotRun
    /\ calls = <<>> /\ written = {} /\ mainOut = "running"

\* the configuration is loaded: the built-in col_map
NLoaded ==
    /\ npc = "idle" /\ cfg = NoFile /\ COL_MAP = DEFAULT_COL_MAP
    /\ rawCols = <<>> /\ normCols = <<>> /\ renormCols = <<>>

\* the three core functions applied in sequence to one raw table
PipeInit ==
    /\ NLoaded /\ PIdle
    /\ pc = "raw"
    /\ raw \in RawTables
    /\ CATEGORY_MAP \in CategoryMaps

PipeNext ==
    \/ (Normalize /\ UNCHANGED nvars)
    \/ (CleanAndEnrich /\ UNCHANGED nvars)
    \/ (ComputeAggregates /\ UNCHANGED nvars)

SpecPipe == PipeInit /\ [][PipeNext]_vars

-----------------------------------------------------------------------------
(* main() *)

SOURCE_FILE == <<"__source_file">>

FileName(i) == Str(<<"f", DigitChar(i)>>)

\* what pd.read_csv / pd.read_excel gives for one file: an exception, or a table
ReadFailed == [ok |-> FALSE, table |-> EmptyTable]
FileTables == TablesOf(SchemaDirty, 0, 1) \cup TablesOf(SchemaScenario, 0, 1)
FileOutcomes == {ReadFailed} \cup {[ok |-> TRUE, table |-> t] : t \in FileTables}

\* lines 84-86: the file's table with its __source_file column
with_source(t, i) ==
    [cols |-> Append(t.cols, SOURCE_FILE),
     rows |-> [r \in 1..Len(t.rows) |-> Append(t.rows[r], FileName(i))]]

\* the columns of pd.concat(dfs) for the first n files: the columns of the
\* tables read, in order of first appearance
RECURSIVE concat_cols(_, _)
concat_cols(fs, n) ==
    IF n = 0 THEN <<>>
    ELSE IF fs[n].ok
         THEN concat_cols(fs, n - 1)
              \o SelectSeq(with_source(fs[n].table, n).cols,
                           LAMBDA c : c \notin Range(concat_cols(fs, n - 1)))
         ELSE concat_cols(fs, n - 1)

\* a row of table u laid out on the columns cols, a cell missing where u
\* lacks the column
widen(u, row, cols) ==
    [i \in 1..Len(cols) |-> IF HasCol(u, cols[i]) THEN Cell(u, row, cols[i]) ELSE NA]

\* the rows of pd.concat(dfs, ignore_index=True) for the first n files
RECURSIVE concat_rows(_, _, _)
concat_rows(fs, n, cols) ==
    IF n = 0 THEN <<>>
    ELSE concat_rows(fs, n - 1, cols)
         \o (IF fs[n].ok
              THEN [r \in 1..Len(fs[n].table.rows) |->
                      widen(with_source(fs[n].table, n),
                            with_source(fs[n].table, n).rows[r], cols)]
              ELSE <<>>)

\* ingest_files(folder): fs[i] is the outcome of reading the i-th file;
\* the empty DataFrame when no file was read
ingest_files(fs) ==
    [cols |-> concat_cols(fs, Len(fs)),
     rows |-> concat_rows(fs, Len(fs), concat_cols(fs, Len(fs)))]

\* lines 358-359: where main() goes once ingest_files has returned
after_ingest_unchecked(t) == "raw"

after_ingest(t) == IF empty(t) THEN "return" ELSE "raw"

MainInit ==
    /\ NLoaded /\ PIdle
    /\ pc = "start"
    /\ raw = EmptyTable
    /\ CATEGORY_MAP = DEFAULT_CATEGORY_MAP

\* raw = ingest_files(INPUT_FOLDER)
Ingest ==
    /\ pc = "start"
    /\ \E fs \in SeqsOf(FileOutcomes, 0, MaxFiles) :
          /\ files' = fs
          /\ raw' = ingest_files(fs)
    /\ pc' = after_ingest(raw')
    /\ UNCHANGED <<norm, clean, aggs, calls, written, mainOut>>

\* if raw.empty: return
ReturnEmpty ==
    /\ pc = "return"
    /\ pc' = "done"
    /\ mainOut' = "returned"
    /\ UNCHANGED <<files, raw, norm, clean, aggs, calls, written>>

\* export_cleaned(clean, OUTPUT_CLEAN)
ExportCleaned ==
    /\ pc = "cleaned"
    /\ calls' = Append(calls, "export_cleaned")
    /\ written' = written \cup {"cleaned_data.xlsx"}
    /\ pc' = "exported"
    /\ UNCHANGED <<files, raw, norm, clean, aggs, mainOut>>

MainAggregate == Aggregate("exported")

\* create_simple_dashboard(aggs, clean, OUTPUT_DASH), then main() returns
CreateDashboard ==
    /\ pc = "aggregated"
    /\ calls' = Append(calls, "create_simple_dashboard")
    /\ written' = written \cup {"dashboard.xlsx"}
    /\ pc' = "done"
    /\ mainOut' = "returned"
    /\ UNCHANGED <<files, raw, norm, clean, aggs>>

MainNext ==
    \/ (Ingest /\ UNCHANGED nvars)
    \/ (ReturnEmpty /\ UNCHANGED nvars)
    \/ (Normalize /\ UNCHANGED nvars)
    \/ (CleanAndEnrich /\ UNCHANGED nvars)
    \/ (ExportCleaned /\ UNCHANGED nvars)
    \/ (MainAggregate /\ UNCHANGED nvars)
    \/ (CreateDashboard /\ UNCHANGED nvars)

SpecMain == MainInit /\ [][MainNext]_vars

-----------------------------------------------------------------------------
(* load_config and normalize_columns on their own *)

PIdleAll ==
    /\ PIdle /\ pc = "idle" /\ raw = EmptyTable

\* any caller configuration, one raw column
NormInit == NInit /\ PIdleAll

NormNext ==
    \/ (LoadConfig /\ UNCHANGED pvars)
    \/ (NormalizeColumn /\ UNCHANGED pvars)
    \/ (Renormalize /\ UNCHANGED pvars)

SpecNorm == NormInit /\ [][NormNext]_vars

\* the built-in configuration, a raw table of distinct columns
ColsInit == NInit /\ PIdleAll

ColsNext ==
    \/ (LoadDefault /\ UNCHANGED pvars)
    \/ (NormalizeTable /\ UNCHANGED pvars)
    \/ (Renormalize /\ UNCHANGED pvars)

SpecCols == ColsInit /\ [][ColsNext]_vars

-----------------------------------------------------------------------------
(* Properties *)

IsPrefix(s, t) == Len(s) <= Len(t) /\ \A i \in 1..Len(s) : s[i] = t[i]

Aggregated == aggs # NotRun

Cleaned == clean # NotRun /\ clean.status = "ok"

\* C1: compute_aggregates never raises: whatever columns the cleaned table
\* has, it returns the KPIs and the five tables, and a table whose grouping
\* column is absent is returned empty
C1_NeverRaises ==
    Aggregated =>
        /\ aggs.status = "ok"
        /\ (~HasCol(clean.table, MONTH) => empty(aggs.monthly))
        /\ (~HasCol(clean.table, DAY) => empty(aggs.daily))
        /\ (~HasCol(clean.table, PRODUCT) => empty(aggs.product))
        /\ (~HasCol(clean.table, CATEGORY) => empty(aggs.category))
        /\ (~HasCol(clean.table, STORE_LOCATION) => empty(aggs.location))

ScenarioTable ==
    [cols |-> <<PRODUCT, QTY, UNIT_PRICE>>,
     rows |-> << <<LATTE, TXT_2, TXT_3_50>>,
                 <<LATTE, TXT_2, TXT_3_50>>,
                 <<MOCHA, TXT_1, TXT_4_00>> >>]

\* C2: the end-to-end scenario (Latte 2 x $3.50 twice, Mocha 1 x 4.00)
\* gives a cleaned table of the two rows Latte 7.00 and Mocha 4.00 and the
\* KPIs total_sales 11.00, total_transactions 2, avg_ticket 5.50,
\* unique_products 2, top_product Latte, total_units 3
C2_EndToEndScenario ==
    (raw = ScenarioTable /\ Aggregated) =>
        /\ Len(clean.table.rows) = 2
        /\ Cell(clean.table, clean.table.rows[1], PRODUCT) = LATTE
        /\ Cell(clean.table, clean.table.rows[1], SALE_AMT) = Num(7 * Scale * Scale)
        /\ Cell(clean.table, clean.table.rows[2], PRODUCT) = MOCHA
        /\ Cell(clean.table, clean.table.rows[2], SALE_AMT) = Num(4 * Scale * Scale)
        /\ aggs.status = "ok"
        /\ aggs.kpis.total_sales = 11 * Scale * Scale
        /\ aggs.kpis.total_transactions = 2
        /\ 2 * aggs.kpis.avg_ticket[1] = 11 * Scale * Scale * aggs.kpis.avg_ticket[2]
        /\ aggs.kpis.unique_products = 2
        /\ aggs.kpis.top_product = LATTE
        /\ aggs.kpis.total_units = 3

\* C3: normalization is idempotent: normalizing the names normalize_columns
\* produced gives the same names again
C3_NormalizeIdempotent ==
    npc = "renormalized" => renormCols = normCols

\* the caller's col_map as load_config sees it
CallerColMap == IF cfg.exists /\ cfg.has_col_map THEN cfg.col_map ELSE <<>>
CallerCategoryMap ==
    IF cfg.exists /\ cfg.has_category_map THEN cfg.category_map ELSE <<>>

\* merged holds the default entries the caller did not supply and every
\* caller entry, the caller's value on a shared key
MergedKeywise(merged, default, caller) ==
    /\ NoDup([i \in 1..Len(merged) |-> merged[i][1]])
    /\ Keys(merged) = Keys(default) \cup Keys(caller)
    /\ \A k \in Keys(caller) : Get(merged, k) = Get(caller, k)
    /\ \A k \in Keys(default) \ Keys(caller) : Get(merged, k) = Get(default, k)

\* C5: after load_config, col_map and category_map hold every default entry
\* whose key the caller did not supply and every caller entry, the caller
\* winning on a shared key; with the caller override quantity -> qty both a
\* column "qty" and a column "quantity" normalize to "qty"
C5_ConfigOverridePrecedence ==
    npc # "start" =>
        /\ MergedKeywise(COL_MAP, DEFAULT_COL_MAP, CallerColMap)
        /\ MergedKeywise(CATEGORY_MAP, DEFAULT_CATEGORY_MAP, CallerCategoryMap)
        /\ (/\ npc \in {"normalized", "renormalized"}
            /\ CallerColMap = << << <<"quantity">>, <<"qty">> >> >>
            /\ strip(rawCols[1]) \in {<<"qty">>, <<"quantity">>})
           => normCols[1] = <<"qty">>

\* C5 witness: the caller overrides a default key with another value, adds a
\* key of its own, and a column has been normalized with the merged map
C5_Witness ==
    /\ npc = "normalized"
    /\ \E k \in Keys(CallerColMap) \cap Keys(DEFAULT_COL_MAP) :
          Get(CallerColMap, k) # Get(DEFAULT_COL_MAP, k)
    /\ Keys(CallerColMap) \ Keys(DEFAULT_COL_MAP) # {}
    /\ CallerCategoryMap # <<>>
    /\ rawCols = << <<"quantity">> >>

\* C10: a raw table with pairwise distinct column names has pairwise
\* distinct normalized column names, and as many columns
C10_DistinctNamesPreserved ==
    (npc \in {"normalized", "renormalized"} /\ NoDup(rawCols)) =>
        /\ Len(normCols) = Len(rawCols)
        /\ NoDup(normCols)

\* cell texts of the input sets that are not a number, a date or a time
UnparseableTexts == {TXT_TWO, TXT_SOON, TXT_LATE}

CoercedCols == {DATE, TIME, QTY, UNIT_PRICE}

\* the indices of the rows of a sequence that equal no earlier row
FirstOccurrences(rows) ==
    {i \in 1..Len(rows) : \A j \in 1..(i - 1) : rows[j] # rows[i]}

\* out is the rows of e at the indices in F, in increasing index order
IsSubsequenceAt(out, e, F) ==
    /\ Len(out) = Cardinality(F)
    /\ \E f \in [1..Len(out) -> F] :
          /\ \A a, b \in 1..Len(out) : a < b => f[a] < f[b]
          /\ \A a \in 1..Len(out) : out[a] = e[f[a]]

\* C4: clean_and_enrich returns the coerced and enriched rows of its input
\* without the rows that equal an earlier row on all columns: the first
\* occurrence stays, the order is kept, there are at most N rows, and a row
\* with an unparseable date, time, qty or unit_price cell stays, that cell
\* missing
C4_DedupOnlyKeepsFirst ==
    Cleaned =>
        LET e   == clean.enriched
            out == clean.table.rows
        IN  /\ Len(e.rows) = Len(norm.rows)
            /\ Len(out) <= Len(norm.rows)
            /\ clean.table.cols = e.cols
            /\ NoDup(out)
            /\ IsSubsequenceAt(out, e.rows, FirstOccurrences(e.rows))
            /\ \A r \in 1..Len(norm.rows) : \A c \in CoercedCols :
                  (HasCol(norm, c) /\ Cell(norm, norm.rows[r], c) \in UnparseableTexts)
                  => /\ isna(Cell(e, e.rows[r], c))
                     /\ e.rows[r] \in Range(out)

\* C4 witness: a duplicate was removed and a row with an unparseable cell
\* is in the result
C4_Witness ==
    /\ Cleaned
    /\ Len(clean.table.rows) < Len(norm.rows)
    /\ Len(clean.table.rows) >= 2
    /\ \E r \in 1..Len(norm.rows) : \E c \in CoercedCols :
          HasCol(norm, c) /\ Cell(norm, norm.rows[r], c) \in UnparseableTexts

\* rows of table t ranked by total_sales descending, equal sums in
\* ascending order of the group key (the first column)
RankedStable(t) ==
    \A i, j \in 1..Len(t.rows) : i < j =>
        LET si == Cell(t, t.rows[i], TOTAL_SALES).v
            sj == Cell(t, t.rows[j], TOTAL_SALES).v
        IN  si > sj \/ (si = sj /\ KeyLess(t.rows[i][1], t.rows[j][1]))

\* C6: the product, category and location tables are ordered by summed
\* sale_amt descending, groups with equal sums in ascending group-key order
C6_RankedDescStableTies ==
    (Aggregated /\ aggs.status = "ok") =>
        \A t \in {aggs.product, aggs.category, aggs.location} :
            ~empty(t) => RankedStable(t)

\* C7: when ingestion yields an empty table main() returns normally and
\* invokes no stage; otherwise the stages are invoked in the order
\* normalize, clean/enrich, export, aggregate, dashboard, one after the
\* other, and a run that returns has invoked all five
C7_EmptySkipsAndStagesInOrder ==
    /\ IsPrefix(calls, STAGES)
    /\ (pc # "start" /\ empty(raw)) =>
          /\ calls = <<>> /\ written = {} /\ clean = NotRun /\ aggs = NotRun
          /\ mainOut # "raised"
          /\ (pc = "done" => mainOut = "returned")
    /\ (pc # "start" /\ ~empty(raw) /\ mainOut = "returned") => calls = STAGES
    /\ ("export_cleaned" \in Range(calls)) = ("cleaned_data.xlsx" \in written)
    /\ ("create_simple_dashboard" \in Range(calls)) = ("dashboard.xlsx" \in written)

\* C7 witness: files were found, none gave a row, and main() has returned
C7_Witness ==
    /\ pc = "done" /\ mainOut = "returned"
    /\ Len(files) = MaxFiles /\ \E i \in 1..Len(files) : files[i].ok
    /\ empty(raw)

\* C8: with qty and unit_price both present every cleaned row has
\* sale_amt = qty * unit_price when both are known and sale_amt missing,
\* never 0, when one is missing or unparseable; with either column absent
\* no sale_amt column is created
C8_SaleAmtNullability ==
    Cleaned =>
        LET e == clean.enriched
            t == clean.table
        IN  IF HasCol(norm, QTY) /\ HasCol(norm, UNIT_PRICE)
            THEN /\ HasCol(t, SALE_AMT)
                 /\ \A r \in 1..Len(t.rows) :
                       LET q == Cell(t, t.rows[r], QTY)
                           u == Cell(t, t.rows[r], UNIT_PRICE)
                           a == Cell(t, t.rows[r], SALE_AMT)
                       IN  IF isna(q) \/ isna(u) THEN isna(a)
                           ELSE a = Num(q.v * u.v)
                 /\ \A r \in 1..Len(norm.rows) :
                       LET q == Cell(norm, norm.rows[r], QTY)
                           u == Cell(norm, norm.rows[r], UNIT_PRICE)
                           a == Cell(e, e.rows[r], SALE_AMT)
                       IN  /\ ({q, u} \cap (UnparseableTexts \cup {TXT_NAN, NA}) # {}) => isna(a)
                           /\ (q = TXT_2 /\ u = TXT_3_50) => a = Num(7 * Scale * Scale)
                           /\ (q = TXT_2 /\ u = TXT_4_00_PAD) => a = Num(8 * Scale * Scale)
            ELSE ~HasCol(t, SALE_AMT)

\* C8 witness: one cleaned row has a known qty, a missing unit_price and a
\* missing sale_amt, another has all three
C8_Witness ==
    /\ Cleaned
    /\ HasCol(clean.table, SALE_AMT) /\ HasCol(clean.table, QTY)
    /\ \E r \in 1..Len(clean.table.rows) :
          /\ ~isna(Cell(clean.table, clean.table.rows[r], QTY))
          /\ isna(Cell(clean.table, clean.table.rows[r], UNIT_PRICE))
          /\ isna(Cell(clean.table, clean.table.rows[r], SALE_AMT))
    /\ \E r \in 1..Len(clean.table.rows) :
          ~isna(Cell(clean.table, clean.table.rows[r], SALE_AMT))

\* C9: top_product is the product of the highest-revenue row of the
\* Product table and is the "not available" sentinel exactly when that
\* table is empty; whenever the cleaned table has a row with a product and
\* a sale_amt, top_product names a product of that table
C9_TopProduct ==
    Aggregated =>
        LET t == clean.table
        IN  /\ aggs.status = "ok"
            /\ empty(aggs.product) = (aggs.kpis.top_product = None)
            /\ ~empty(aggs.product) =>
                  \E r \in 1..Len(aggs.product.rows) :
                     /\ aggs.product.rows[r][1] = aggs.kpis.top_product
                     /\ \A q \in 1..Len(aggs.product.rows) :
                           Cell(aggs.product, aggs.product.rows[q], TOTAL_SALES).v
                           <= Cell(aggs.product, aggs.product.rows[r], TOTAL_SALES).v
            /\ (HasCol(t, SALE_AMT) /\ \E r \in 1..Len(t.rows) :
                    /\ ~isna(Cell(t, t.rows[r], PRODUCT))
                    /\ ~isna(Cell(t, t.rows[r], SALE_AMT)))
               => aggs.kpis.top_product \in Range(ColVals(t, PRODUCT))

====
